---------------------------- MODULE Spec2Model ----------------------------
(***************************************************************************)
(* A model of the batch-job panel of triton-lab/myextension:               *)
(*   - the output-path derivation of utils.ts (getOutputPath and helpers), *)
(*   - the create-job dialog flow of BatchJobManager.showCreateJobDialog,  *)
(*   - the job table of BatchJobManager.fetchJobs with its delete control. *)
(* Strings are sequences of one-character strings, so that split, join and *)
(* comparison work on characters as they do in the code.                   *)
(***************************************************************************)
EXTENDS Integers, Sequences, FiniteSets, TLC

VARIABLES
    \* --- output-path derivation
    job,            \* the IBatchJobItem handed to getOutputPath
    outputPath,     \* what getOutputPath returned for it, or NotCalled
    \* --- create-job flow (showCreateJobDialog)
    cPc,            \* where showCreateJobDialog stands
    dialogs,        \* every Dialog launched, in launch order (the launch queue)
    queue,          \* the local array `queue` of dialog promises (ids into dialogs)
    dialog,         \* the local variable `dialog`: the current modal A instance
    microtasks,     \* promise reactions ready to run, first in first out
    form,           \* the values of the four form fields of `body`
    valuesEntered,  \* the local flag `valuesEntered`
    addJobCalls,    \* the argument lists addJob was called with
    error,          \* what the catch block of showCreateJobDialog caught
    browses,        \* Browse clicks so far
    confirmed,      \* observer: the form values when 'Create Job' was pressed
    atBrowse,       \* observer: the form values when Browse was last clicked
    \* --- job table (fetchJobs) and its delete controls
    server,         \* the job ids the backend holds
    calls,          \* every fetchJobs invocation, in call order
    tableBody,      \* the rows of #jobs-table-body, in document order
    listeners,      \* which call's click listener sits on which delete button
    clickedButtons, \* the `clickedButtons` set of each call's closure
    timers,         \* pending 3-second disarm timers
    deletes,        \* every confirming-click handler: one DELETE request each
    downloads,      \* job ids a GET download/<job_id> was issued for
    alerts,         \* the alert elements in .job-table-alert: how many of each
    notifications,  \* messages passed to Notification.error
    spinners,       \* loading spinners in .job-table-header
    probe,          \* observer: one delete control followed from an Idle click
    \* --- console log of one job (fetchJobs row, showConsoleLog)
    console_output, \* the job's console_output as the backend sent it
    jobLog,         \* the row's data-job-log attribute as the document holds it
    logBody         \* the child nodes of the <pre> of the Console Log dialog

pathVars == <<job, outputPath>>

createVars == <<cPc, error, dialogs, queue, dialog, microtasks, form, valuesEntered,
                addJobCalls, browses, confirmed, atBrowse>>

listVars == <<server, calls, tableBody, listeners, clickedButtons, timers, deletes,
              downloads, alerts, notifications, spinners, probe>>
listVarsButAlerts == <<server, calls, tableBody, listeners, clickedButtons, timers, deletes,
                       downloads, notifications, spinners, probe>>

logVars == <<console_output, jobLog, logBody>>

vars == <<pathVars, createVars, listVars, logVars>>

---------------------------------------------------------------------------
(* JavaScript values and string built-ins used by utils.ts                 *)

\* The JavaScript value undefined (not a string).
Undefined == <<"<undefined>">>

\* No call of getOutputPath has been made yet.
NotCalled == <<"<not called>">>

\* What a template literal `${x}` prints for x.
toTemplate(x) == IF x = Undefined THEN <<"u","n","d","e","f","i","n","e","d">> ELSE x

\* String.prototype.includes for a one-character needle.
includes(s, c) == \E i \in 1..Len(s) : s[i] = c

\* String.prototype.split for a one-character separator: never empty,
\* ''.split(c) is [''].
RECURSIVE split(_, _)
split(s, sep) ==
    IF ~includes(s, sep)
    THEN <<s>>
    ELSE LET k == CHOOSE i \in 1..Len(s) :
                      s[i] = sep /\ \A j \in 1..(i-1) : s[j] # sep
         IN  <<SubSeq(s, 1, k-1)>> \o split(SubSeq(s, k+1, Len(s)), sep)

\* Array.prototype.join.
RECURSIVE join(_, _)
join(xs, sep) ==
    IF xs = <<>> THEN <<>>
    ELSE IF Len(xs) = 1 THEN xs[1]
    ELSE xs[1] \o <<sep>> \o join(Tail(xs), sep)

\* Array.prototype.pop: the removed last element (undefined for []) ...
popped(xs) == IF xs = <<>> THEN Undefined ELSE xs[Len(xs)]

\* ... and the array it leaves behind.
afterPop(xs) == IF xs = <<>> THEN <<>> ELSE SubSeq(xs, 1, Len(xs) - 1)

\* Array.prototype.slice(0, -1).
sliceButLast(xs) == IF xs = <<>> THEN <<>> ELSE SubSeq(xs, 1, Len(xs) - 1)

\* xs[0], undefined when the array is empty.
first(xs) == IF xs = <<>> THEN Undefined ELSE xs[1]

---------------------------------------------------------------------------
(* utils.ts                                                                *)

IPYNB == <<"i","p","y","n","b">>

shortenId(job_id) ==
    LET parts == split(job_id, "-")
    IN  first(parts)

getStem(filename) ==
    IF ~includes(filename, ".")
    THEN filename
    ELSE join(sliceButLast(split(filename, ".")), ".")

\* getOutputFilename without its guard for a missing or empty name.
getOutputFilenameUnguarded(filename) ==
    LET xs == split(filename, ".")
    IN  IF xs[Len(xs)] = IPYNB
        THEN filename
        ELSE getStem(filename) \o <<".","o","u","t">>

getOutputFilename(filename) ==
    IF filename = Undefined \/ filename = <<>>
    THEN <<"u","n","d","e","f","i","n","e","d">>
    ELSE LET xs == split(filename, ".")
         IN  IF xs[Len(xs)] = IPYNB
             THEN filename
             ELSE getStem(filename) \o <<".","o","u","t">>

getOutputPath(meta) ==
    LET pathComponents0 == split(meta.file_path, "/")
        jobNameShort    == getStem(meta.name)
        filename        == popped(pathComponents0)
        pathComponents  == afterPop(pathComponents0)
        outputFilename  == getOutputFilename(filename)
        root            == join(pathComponents, "/")
        jobIdShort      == shortenId(meta.job_id)
        parent_dir      == jobNameShort \o <<"_">> \o toTemplate(jobIdShort)
        outputPathDir   == root \o <<"/">> \o parent_dir
    IN  outputPathDir \o <<"/">> \o outputFilename

\* The two worked examples of the specification.
ExampleRun ==
    [name      |-> <<"A","n","a","l","y","s","i","s"," ","R","u","n">>,
     file_path |-> <<"p","r","o","j","/","d","a","t","a","/","i","n","p","u","t",".","p","y">>,
     job_id    |-> <<"a","b","c","d","1","2","3","4","-","x","y","z">>]

ExampleNotebook ==
    [name      |-> <<"n","b">>,
     file_path |-> <<"a","/","b","/","n","b",".","i","p","y","n","b">>,
     job_id    |-> <<"f","f","-","0","0">>]

PathAtRest ==
    /\ job = ExampleRun
    /\ outputPath = NotCalled

---------------------------------------------------------------------------
(* The console log of a job: escapeHtmlAttribute, the data-job-log         *)
(* attribute of the row that fetchJobs builds with innerHTML, the click    *)
(* listener of the status link and showConsoleLog.                         *)
(*                                                                         *)
(* innerHTML runs the HTML parser of the browser.  The log strings of the  *)
(* model have no white space, no '/', '!' or '?' and one letter, so of the *)
(* parser these states matter: character references, the double-quoted     *)
(* attribute value, and in content '<' followed by a letter, which opens a *)
(* tag that runs to the next '>'.                                          *)

\* String.prototype.replace(/c/g, rep) for a one-character pattern.
RECURSIVE replaceAll(_, _, _)
replaceAll(s, c, with) ==
    IF s = <<>> THEN <<>>
    ELSE (IF s[1] = c THEN with ELSE <<s[1]>>) \o replaceAll(Tail(s), c, with)

escapeHtmlAttribute(str) ==
    LET amp  == replaceAll(str,  "&",  <<"&","a","m","p",";">>)
        lt   == replaceAll(amp,  "<",  <<"&","l","t",";">>)
        gt   == replaceAll(lt,   ">",  <<"&","g","t",";">>)
        quot == replaceAll(gt,   "\"", <<"&","q","u","o","t",";">>)
    IN  replaceAll(quot, "'", <<"&","#","3","9",";">>)

\* The character references the HTML parser resolves here, each with the
\* character it stands for.
CharacterReferences ==
    { [ref |-> <<"&","a","m","p",";">>,     char |-> "&"],
      [ref |-> <<"&","l","t",";">>,         char |-> "<"],
      [ref |-> <<"&","g","t",";">>,         char |-> ">"],
      [ref |-> <<"&","q","u","o","t",";">>, char |-> "\""],
      [ref |-> <<"&","#","3","9",";">>,     char |-> "'"] }

\* The character references that s holds at position i (none or one).
ReferencesAt(s, i) ==
    {r \in CharacterReferences :
        /\ i + Len(r.ref) - 1 <= Len(s)
        /\ SubSeq(s, i, i + Len(r.ref) - 1) = r.ref}

\* The value the parser gives an attribute written attr="<s>...: it ends at
\* the first '"', and character references stand for their characters.
RECURSIVE attributeValue(_, _)
attributeValue(s, i) ==
    IF i > Len(s) \/ s[i] = "\"" THEN <<>>
    ELSE IF ReferencesAt(s, i) # {}
    THEN LET r == CHOOSE r \in ReferencesAt(s, i) : TRUE
         IN  <<r.char>> \o attributeValue(s, i + Len(r.ref))
    ELSE <<s[i]>> \o attributeValue(s, i + 1)

Letters == {"b"}

TextNode(c) == [kind |-> "text", data |-> <<c>>]
ElementNode(tag) == [kind |-> "element", data |-> tag]

\* The nodes the parser makes of s as the content of an element: a text
\* node per character of text, an element per start tag.  A tag that the
\* end of the string cuts short is dropped.
RECURSIVE contentNodes(_, _)
contentNodes(s, i) ==
    IF i > Len(s) THEN <<>>
    ELSE IF s[i] = "<" /\ i < Len(s) /\ s[i+1] \in Letters
    THEN IF \E k \in (i+1)..Len(s) : s[k] = ">"
         THEN LET k == CHOOSE k \in (i+1)..Len(s) :
                          s[k] = ">" /\ \A m \in (i+1)..(k-1) : s[m] # ">"
              IN  <<ElementNode(SubSeq(s, i+1, k-1))>> \o contentNodes(s, k + 1)
         ELSE <<>>
    ELSE IF ReferencesAt(s, i) # {}
    THEN LET r == CHOOSE r \in ReferencesAt(s, i) : TRUE
         IN  <<TextNode(r.char)>> \o contentNodes(s, i + Len(r.ref))
    ELSE <<TextNode(s[i])>> \o contentNodes(s, i + 1)

\* The row is not in the document yet.
NotRendered == <<"<not rendered>">>
\* The status link has not been clicked.
NotShown == <<[kind |-> "not shown", data |-> <<>>]>>
\* The click listener found no log content and only warned.
NotAvailable == <<[kind |-> "not available", data |-> <<>>]>>

LogAtRest ==
    /\ console_output = <<>>
    /\ jobLog = NotRendered
    /\ logBody = NotShown

\* fetchJobs builds the row: console_output escaped, put between the double
\* quotes of data-job-log, and the row's markup parsed by innerHTML.
RenderRow ==
    /\ jobLog = NotRendered
    /\ jobLog' = attributeValue(escapeHtmlAttribute(console_output), 1)
    /\ UNCHANGED <<console_output, logBody, pathVars, createVars, listVars>>

\* showConsoleLog(logContent): the content of the <pre> that innerHTML makes
\* of `<pre>${logContent}</pre>`.
showConsoleLog(logContent) == contentNodes(logContent, 1)

\* A click on the status link: dataset.jobLog shown by showConsoleLog, or a
\* warning when it is empty.
ClickStatus ==
    /\ jobLog # NotRendered
    /\ logBody = NotShown
    /\ logBody' = IF jobLog # <<>> THEN showConsoleLog(jobLog) ELSE NotAvailable
    /\ UNCHANGED <<console_output, jobLog, pathVars, createVars, listVars>>

---------------------------------------------------------------------------
(* The job table: BatchJobManager.fetchJobs, its delete controls, the      *)
(* alerts and the spinner.                                                 *)
(*                                                                         *)
(* A fetchJobs call suspends at the GET of the collection and, for every   *)
(* job, at fileExists; calls may overlap.  Elements that `innerHTML = ''`  *)
(* removed from the document can no longer be clicked or seen, so their    *)
(* listeners, arming state and timers are dropped from the state.          *)

MaxReloads == 1
MaxAttaches == 1
MaxDeletes == 2
\* fetchJobs is called once per Reload click, attach and successful DELETE
\* or POST.
MaxCalls == MaxReloads + MaxAttaches + MaxDeletes + 1

JobIds == {"j1", "j2", "j3"}

\* The order in which the backend lists its jobs.
JobOrder == <<"j1", "j2", "j3">>

\* The status the backend reports for each job.
JobStatus == [j \in JobIds |-> IF j = "j1" THEN "RUNNING"
                             ELSE IF j = "j2" THEN "TERMINATED" ELSE "EMPTY"]

\* What a failed request throws: ServerConnection.NetworkError, or
\* ServerConnection.ResponseError with the cause the response body carries.
NetworkError == [type |-> "network", cause |-> "TypeError"]
ResponseError(cause) == [type |-> "response", cause |-> cause]
NoError == [type |-> "none", cause |-> ""]

\* How GET /jobs, DELETE /jobs/<id> and the contents API may fail.
RequestErrors == {NetworkError, ResponseError("Other")}
CreateErrors == RequestErrors \cup {ResponseError("SpotMaxPriceTooLow"),
                                    ResponseError("InsufficientInstanceCapacity"),
                                    ResponseError("VcpuLimitExceeded")}
ExistsErrors == {ResponseError("undefined")}

Listed(jobs) == SelectSeq(JobOrder, LAMBDA j : j \in jobs)

\* No button: the handler run has no further use of its button.
NoButton == <<0, 0>>

NoProbe == [b |-> NoButton, job |-> "", phase |-> "none", issued |-> <<>>]

\* The alert container holds alert elements that differ in class and
\* message only: a bag of (class, message) pairs.
NoAlerts == [a \in {} |-> 0]

AlertCount(al, a) == IF a \in DOMAIN al THEN al[a] ELSE 0

\* The bag `al` with n alerts `a` more (n may be negative).
withAlerts(al, a, n) ==
    LET cnt == AlertCount(al, a) + n
        dom == IF cnt > 0 THEN DOMAIN al \cup {a} ELSE DOMAIN al \ {a}
    IN  [x \in dom |-> IF x = a THEN cnt ELSE al[x]]

\* showAlert(message, classname, type): the container with one more alert.
showAlert(al, msg, cls) == withAlerts(al, [cls |-> cls, msg |-> msg], 1)

\* removeAlert(classname): the first alert of that class, if any, removed.
\* (Alerts of one class removed this way all carry the same message.)
removeAlert(al, cls) ==
    IF \E a \in DOMAIN al : a.cls = cls
    THEN withAlerts(al, CHOOSE a \in DOMAIN al : a.cls = cls, -1)
    ELSE al

ListAtRest ==
    /\ calls = <<>>
    /\ tableBody = <<>>
    /\ listeners = {}
    /\ clickedButtons = {}
    /\ timers = {}
    /\ deletes = <<>>
    /\ downloads = {}
    /\ alerts = NoAlerts
    /\ notifications = {}
    /\ spinners = 0
    /\ probe = NoProbe

\* removeSpinner(): the first spinner, if any, removed.
removeSpinner(n) == IF n > 0 THEN n - 1 ELSE 0

\* The message of the delete handler's catch block.
DeleteFailureMsg(err) ==
    IF err.type = "response" THEN "Failed: " \o err.cause \o "."
    ELSE IF err.type = "network" THEN "Failed to delete Job (NetworkError): " \o err.cause
    ELSE "Failed to delete Job: " \o err.cause

\* The message of showCreateJobDialog's catch block.
\* The catch block of showCreateJobDialog without its two special cases:
\* the raw cause whatever it is.
CreateFailureMsgRawCause(err) ==
    IF err.type = "response" THEN "Failed: " \o err.cause \o "."
    ELSE IF err.type = "network" THEN "Failed to Create Job (NetworkError): " \o err.cause
    ELSE "Failed to Create Job: " \o err.cause

CreateFailureMsg(err) ==
    IF err.type = "response"
    THEN IF err.cause = "SpotMaxPriceTooLow"
         THEN "Failed: Increase Max Coins Per Hour in the job definition."
         ELSE IF err.cause = "InsufficientInstanceCapacity"
         THEN "Failed: Insufficient instance capacity. Wait or choose other instance types."
         ELSE "Failed: " \o err.cause \o "."
    ELSE IF err.type = "network" THEN "Failed to Create Job (NetworkError): " \o err.cause
    ELSE "Failed to Create Job: " \o err.cause

ButtonOf(row) == <<row.call, row.idx>>
Buttons(tb) == {ButtonOf(tb[i]) : i \in 1..Len(tb)}
RowOf(tb, b) == tb[CHOOSE i \in 1..Len(tb) : ButtonOf(tb[i]) = b]

\* A control is Idle when no closure holds it in its clickedButtons.
Idle(b) == ~\E e \in clickedButtons : e.button = b

\* fetchJobs is entered by `caller`: the GET of the collection is issued.
startFetch(cs, caller) ==
    Append(cs, [pc |-> "awaitGet", jobs |-> <<>>, i |-> 0, caller |-> caller])

\* The fetchJobs call c ends, with err = NoError when it returns and with
\* the error it throws otherwise, and its caller runs on: the Reload
\* handler and onAfterAttach remove the spinner (nothing catches a throw),
\* the delete handler and showCreateJobDialog remove their progress alert
\* or show the failure.  `cs` and `al` are calls and alerts as the ending
\* call leaves them.
finishCall(c, cs, al, err) ==
    LET caller == cs[c].caller
        ok     == err = NoError
    IN  /\ calls' = [cs EXCEPT ![c] = [pc |-> IF ok THEN "done"
                                             ELSE IF cs[c].pc = "awaitGet" THEN "failedGet"
                                             ELSE "failedExists",
                                       jobs |-> <<>>, i |-> 0,
                                       caller |-> [caller EXCEPT !.id = 0]]]
        /\ spinners' = IF ok /\ caller.kind \in {"reload", "attach"}
                       THEN removeSpinner(spinners) ELSE spinners
        /\ alerts' =
              IF caller.kind = "delete"
              THEN IF ok THEN removeAlert(al, "deleting-job-alert")
                   ELSE showAlert(al, DeleteFailureMsg(err), "deleting-job-error-alert")
              ELSE IF caller.kind = "create"
              THEN IF ok THEN removeAlert(al, "submitting-job-alert")
                   ELSE showAlert(al, CreateFailureMsg(err), "job-submission-error-alert")
              ELSE al
        /\ notifications' =
              IF ok \/ caller.kind \notin {"delete", "create"} THEN notifications
              ELSE notifications \cup
                      {IF caller.kind = "delete" THEN DeleteFailureMsg(err)
                                                 ELSE CreateFailureMsg(err)}
        /\ deletes' = IF caller.kind = "delete"
                      THEN [deletes EXCEPT ![caller.id].pc = IF ok THEN "done" ELSE "failed"]
                      ELSE deletes
        /\ cPc' = IF caller.kind = "create"
                  THEN (IF ok THEN "done" ELSE "failed")
                  ELSE cPc
        /\ error' = IF caller.kind = "create" /\ ~ok THEN err ELSE error

createVarsButPc == <<dialogs, queue, dialog, microtasks, form, valuesEntered,
                     addJobCalls, browses, confirmed, atBrowse>>

\* The panel takes clicks only when no modal dialog covers it and no
\* microtask is waiting.
PanelFree == microtasks = <<>> /\ \A d \in 1..Len(dialogs) : dialogs[d].state # "visible"

CallsBy(kind) == Cardinality({c \in 1..Len(calls) : calls[c].caller.kind = kind})

\* The Reload button of the attached panel: showSpinner(), then fetchJobs up
\* to its first await.
ClickReload ==
    /\ PanelFree /\ CallsBy("attach") > 0 /\ CallsBy("reload") < MaxReloads
    /\ spinners' = spinners + 1
    /\ calls' = startFetch(calls, [kind |-> "reload", id |-> 0])
    /\ UNCHANGED <<server, tableBody, listeners, clickedButtons, timers, deletes,
                   downloads, alerts, notifications, probe, createVars, pathVars, logVars>>

\* onAfterAttach: the same, when the host attaches the panel.
AfterAttach ==
    /\ microtasks = <<>> /\ CallsBy("attach") < MaxAttaches
    /\ spinners' = spinners + 1
    /\ calls' = startFetch(calls, [kind |-> "attach", id |-> 0])
    /\ UNCHANGED <<server, tableBody, listeners, clickedButtons, timers, deletes,
                   downloads, alerts, notifications, probe, createVars, pathVars, logVars>>

\* fetchJobs with `tableBody.innerHTML = ''` ahead of the GET: the failure
\* comes after the table has been emptied.
GetFailsAfterClearing ==
    \E c \in 1..Len(calls) : \E err \in RequestErrors :
        /\ calls[c].pc = "awaitGet"
        /\ finishCall(c, calls, alerts, err)
        /\ tableBody' = <<>>
        /\ listeners' = {}
        /\ clickedButtons' = {}
        /\ timers' = {}
        /\ probe' = NoProbe
        /\ UNCHANGED <<server, downloads, createVarsButPc, pathVars, logVars>>

\* The GET of the collection fails: fetchJobs throws before it touches the
\* table.
GetFails ==
    \E c \in 1..Len(calls) : \E err \in RequestErrors :
        /\ calls[c].pc = "awaitGet"
        /\ finishCall(c, calls, alerts, err)
        /\ UNCHANGED <<server, tableBody, listeners, clickedButtons, timers, downloads,
                       probe, createVarsButPc, pathVars, logVars>>

\* The listeners of call c's closure, added to every delete button that is
\* in the document when the loop over the jobs has ended.
attachListeners(ls, tb, c) == ls \cup {[button |-> b, closure |-> c] : b \in Buttons(tb)}

\* The GET succeeds: the table body is emptied and the first row is built,
\* up to `await fileExists(outputPath)`; with no job listed the call ends.
GetSucceeds ==
    \E c \in 1..Len(calls) :
        /\ calls[c].pc = "awaitGet"
        /\ tableBody' = <<>>
        /\ listeners' = {}
        /\ clickedButtons' = {}
        /\ timers' = {}
        /\ probe' = NoProbe
        /\ LET jobs == Listed(server)
           IN  IF jobs = <<>>
               THEN finishCall(c, calls, alerts, NoError)
               ELSE /\ calls' = [calls EXCEPT ![c] = [@ EXCEPT !.pc = "awaitExists",
                                                              !.jobs = jobs, !.i = 1]]
                    /\ UNCHANGED <<spinners, alerts, notifications, deletes, cPc, error>>
        /\ UNCHANGED <<server, downloads, createVarsButPc, pathVars, logVars>>

\* fileExists throws (an error other than 404): fetchJobs throws with the
\* row in hand not appended and no listener attached.
ExistsFails ==
    \E c \in 1..Len(calls) : \E err \in ExistsErrors :
        /\ calls[c].pc = "awaitExists"
        /\ finishCall(c, calls, alerts, err)
        /\ UNCHANGED <<server, tableBody, listeners, clickedButtons, timers, downloads,
                       probe, createVarsButPc, pathVars, logVars>>

\* fetchJobs without the `else if` branch of lines 199-205: neither a link
\* nor a download for a job whose file does not exist.
ExistsAnswersLinkIfExists(exists) ==
    \E c \in 1..Len(calls) :
        /\ calls[c].pc = "awaitExists"
        /\ LET j    == calls[c].jobs[calls[c].i]
               fin  == JobStatus[j] \in {"TERMINATED", "EMPTY"}
               row  == [call |-> c, idx |-> calls[c].i, job |-> j,
                        exists |-> exists, output |-> exists,
                        text |-> "Delete", warning |-> FALSE]
               tb   == Append(tableBody, row)
           IN  /\ tableBody' = tb
               /\ downloads' = downloads
               /\ IF calls[c].i < Len(calls[c].jobs)
                  THEN /\ calls' = [calls EXCEPT ![c].i = @ + 1]
                       /\ UNCHANGED <<listeners, spinners, alerts, notifications,
                                      deletes, cPc, error>>
                  ELSE /\ listeners' = attachListeners(listeners, tb, c)
                       /\ finishCall(c, calls, alerts, NoError)
        /\ UNCHANGED <<server, clickedButtons, timers, probe, createVarsButPc, pathVars, logVars>>

\* fileExists answers: the output link is set when the file exists or the
\* job is TERMINATED or EMPTY (then with a GET download/<job_id> sent off),
\* the row is appended, and the loop goes on to the next job or ends, the
\* delete and status listeners attached.
ExistsAnswers(exists) ==
    \E c \in 1..Len(calls) :
        /\ calls[c].pc = "awaitExists"
        /\ LET j    == calls[c].jobs[calls[c].i]
               fin  == JobStatus[j] \in {"TERMINATED", "EMPTY"}
               row  == [call |-> c, idx |-> calls[c].i, job |-> j,
                        exists |-> exists, output |-> exists \/ fin,
                        text |-> "Delete", warning |-> FALSE]
               tb   == Append(tableBody, row)
           IN  /\ tableBody' = tb
               /\ downloads' = IF ~exists /\ fin THEN downloads \cup {j} ELSE downloads
               /\ IF calls[c].i < Len(calls[c].jobs)
                  THEN /\ calls' = [calls EXCEPT ![c].i = @ + 1]
                       /\ UNCHANGED <<listeners, spinners, alerts, notifications,
                                      deletes, cPc, error>>
                  ELSE /\ listeners' = attachListeners(listeners, tb, c)
                       /\ finishCall(c, calls, alerts, NoError)
        /\ UNCHANGED <<server, clickedButtons, timers, probe, createVarsButPc, pathVars, logVars>>

\* The observer after a click on control b that issued DELETEs for `issued`.
probeAfterClick(b, j, wasIdle, issued) ==
    IF wasIdle
    THEN IF probe.phase \in {"armed", "rearmed"} THEN probe
         ELSE [b |-> b, job |-> j, issued |-> issued,
               phase |-> IF probe.b = b /\ probe.phase = "lapsed" THEN "rearmed"
                                                                 ELSE "armed"]
    ELSE IF probe.b = b /\ probe.phase \in {"armed", "rearmed"}
    THEN [probe EXCEPT !.phase = "confirmed", !.issued = issued]
    ELSE IF probe.b = b /\ probe.phase \in {"confirmed", "again"}
    THEN [probe EXCEPT !.phase = "again", !.issued = @ \o issued]
    ELSE probe

Repeat(x, n) == [i \in 1..n |-> x]

\* The click handler with one armed flag per closure in place of the set of
\* armed buttons.
ClickDeleteOneFlag(b) ==
    /\ PanelFree /\ b \in Buttons(tableBody)
    /\ LET on      == {l.closure : l \in {x \in listeners : x.button = b}}
           arming  == {cl \in on : ~\E e \in clickedButtons : e.closure = cl}
           k       == Cardinality(on \ arming)
           row     == RowOf(tableBody, b)
           at      == CHOOSE i \in 1..Len(tableBody) : ButtonOf(tableBody[i]) = b
       IN  /\ on # {}
           /\ Len(deletes) + k <= MaxDeletes
           /\ clickedButtons' = clickedButtons \cup
                                   {[closure |-> cl, button |-> b] : cl \in arming}
           /\ timers' = timers \cup {[closure |-> cl, button |-> b] : cl \in arming}
           /\ tableBody' = IF arming = {} THEN tableBody
                           ELSE [tableBody EXCEPT ![at] =
                                    [@ EXCEPT !.text = "Confirm Delete", !.warning = TRUE]]
           /\ deletes' = deletes \o Repeat([job |-> row.job, button |-> b, pc |-> "awaitDelete"], k)
           /\ alerts' = withAlerts(alerts, [cls |-> "deleting-job-alert", msg |-> "Deleting..."], k)
           /\ probe' = probeAfterClick(b, row.job, Idle(b), Repeat(row.job, k))
    /\ UNCHANGED <<server, calls, listeners, downloads, notifications, spinners,
                   createVars, pathVars, logVars>>

\* A click on the delete button b: every listener on it runs, each with
\* the clickedButtons of its own closure; a first click arms and starts
\* the 3-second timer, a click on an armed control shows 'Deleting...' and
\* sends the DELETE for the button's data-job-id.
ClickDelete(b) ==
    /\ PanelFree /\ b \in Buttons(tableBody)
    /\ LET on      == {l.closure : l \in {x \in listeners : x.button = b}}
           arming  == {cl \in on : [closure |-> cl, button |-> b] \notin clickedButtons}
           k       == Cardinality(on \ arming)
           row     == RowOf(tableBody, b)
           at      == CHOOSE i \in 1..Len(tableBody) : ButtonOf(tableBody[i]) = b
       IN  /\ on # {}
           /\ Len(deletes) + k <= MaxDeletes
           /\ clickedButtons' = clickedButtons \cup
                                   {[closure |-> cl, button |-> b] : cl \in arming}
           /\ timers' = timers \cup {[closure |-> cl, button |-> b] : cl \in arming}
           /\ tableBody' = IF arming = {} THEN tableBody
                           ELSE [tableBody EXCEPT ![at] =
                                    [@ EXCEPT !.text = "Confirm Delete", !.warning = TRUE]]
           /\ deletes' = deletes \o Repeat([job |-> row.job, button |-> b, pc |-> "awaitDelete"], k)
           /\ alerts' = withAlerts(alerts, [cls |-> "deleting-job-alert", msg |-> "Deleting..."], k)
           /\ probe' = probeAfterClick(b, row.job, Idle(b), Repeat(row.job, k))
    /\ UNCHANGED <<server, calls, listeners, downloads, notifications, spinners,
                   createVars, pathVars, logVars>>

\* The timer callback without the lines that restore label and class.
DisarmTimerKeepsLabel(t) ==
    /\ t \in timers
    /\ timers' = timers \ {t}
    /\ clickedButtons' = clickedButtons \ {t}
    /\ probe' = IF probe.b = t.button /\ ~\E e \in clickedButtons' : e.button = t.button
                THEN IF probe.phase \in {"armed", "rearmed"}
                     THEN [probe EXCEPT !.phase = "lapsed"]
                     ELSE NoProbe
                ELSE probe
    /\ UNCHANGED <<server, calls, tableBody, listeners, deletes, downloads, alerts,
                   notifications, spinners, createVars, pathVars, logVars>>

\* Three seconds after an arming click the timer callback runs: the button
\* leaves the closure's clickedButtons and gets its label and class back.
DisarmTimerFires(t) ==
    /\ t \in timers
    /\ timers' = timers \ {t}
    /\ clickedButtons' = clickedButtons \ {t}
    /\ LET at == CHOOSE i \in 1..Len(tableBody) : ButtonOf(tableBody[i]) = t.button
       IN  tableBody' = [tableBody EXCEPT ![at] =
                            [@ EXCEPT !.text = "Delete", !.warning = FALSE]]
    /\ probe' = IF probe.b = t.button /\ ~\E e \in clickedButtons' : e.button = t.button
                THEN IF probe.phase \in {"armed", "rearmed"}
                     THEN [probe EXCEPT !.phase = "lapsed"]
                     ELSE NoProbe
                ELSE probe
    /\ UNCHANGED <<server, calls, listeners, deletes, downloads, alerts, notifications,
                   spinners, createVars, pathVars, logVars>>

\* The DELETE succeeds: the backend drops the job and the handler goes on
\* to fetchJobs.
DeleteSucceeds ==
    \E h \in 1..Len(deletes) :
        /\ deletes[h].pc = "awaitDelete"
        /\ server' = server \ {deletes[h].job}
        /\ deletes' = [deletes EXCEPT ![h].pc = "awaitFetch", ![h].button = NoButton]
        /\ calls' = startFetch(calls, [kind |-> "delete", id |-> h])
        /\ UNCHANGED <<tableBody, listeners, clickedButtons, timers, downloads, alerts,
                       notifications, spinners, probe, createVars, pathVars, logVars>>

\* The delete handler with fetchJobs in a finally: the refresh follows the
\* failed DELETE too.
DeleteFailsThenRefreshes ==
    \E h \in 1..Len(deletes) : \E err \in RequestErrors :
        /\ deletes[h].pc = "awaitDelete"
        /\ deletes' = [deletes EXCEPT ![h].pc = "failed", ![h].button = NoButton]
        /\ alerts' = showAlert(alerts, DeleteFailureMsg(err), "deleting-job-error-alert")
        /\ notifications' = notifications \cup {DeleteFailureMsg(err)}
        /\ calls' = startFetch(calls, [kind |-> "delete", id |-> h])
        /\ UNCHANGED <<server, tableBody, listeners, clickedButtons, timers,
                       downloads, spinners, probe, createVars, pathVars, logVars>>

\* The DELETE fails: the catch block shows the failure.
DeleteFails ==
    \E h \in 1..Len(deletes) : \E err \in RequestErrors :
        /\ deletes[h].pc = "awaitDelete"
        /\ deletes' = [deletes EXCEPT ![h].pc = "failed", ![h].button = NoButton]
        /\ alerts' = showAlert(alerts, DeleteFailureMsg(err), "deleting-job-error-alert")
        /\ notifications' = notifications \cup {DeleteFailureMsg(err)}
        /\ UNCHANGED <<server, calls, tableBody, listeners, clickedButtons, timers,
                       downloads, spinners, probe, createVars, pathVars, logVars>>

\* Twenty seconds after showAlert its timer removes that alert element.
AlertExpires ==
    \E a \in DOMAIN alerts :
        /\ alerts' = withAlerts(alerts, a, -1)
        /\ UNCHANGED <<server, calls, tableBody, listeners, clickedButtons, timers,
                       deletes, downloads, notifications, spinners, probe, createVars,
                       pathVars, logVars>>

\* Twenty seconds after showSpinner its timer removes that spinner element.
SpinnerExpires ==
    /\ spinners > 0
    /\ spinners' = spinners - 1
    /\ UNCHANGED <<server, calls, tableBody, listeners, clickedButtons, timers,
                   deletes, downloads, alerts, notifications, probe, createVars,
                   pathVars, logVars>>

---------------------------------------------------------------------------
(* The create-job flow: BatchJobManager.showCreateJobDialog.               *)
(*                                                                         *)
(* A Dialog of JupyterLab is attached (visible) only once every dialog     *)
(* launched before it has settled; launch() returns the promise of its     *)
(* result, reject() settles it with the Cancel button.  A promise runs its *)
(* reactions in the order they were registered, one microtask each, and    *)
(* no user event is handled while a microtask is waiting.                  *)

MaxBrowse == 2
MaxCreates == 2
MaxPicked == 2

\* What the user may type or choose.
TypedNames == {"run"}
TypedPaths == {"x/y.py"}
InstanceTypes == {"t3.medium", "t3a.medium"}
CoinValues == {"10", "11"}

\* What the file picker may hand back: Contents.IModel items.
Files == {[name |-> "a.py", path |-> "d/a.py"], [name |-> "b.ipynb", path |-> "d/b.ipynb"]}

\* The selections of at most n items, in the order picked, no item twice.
RECURSIVE Selections(_, _)
Selections(S, n) ==
    IF n = 0 THEN {<<>>}
    ELSE LET shorter == Selections(S, n - 1)
         IN  shorter \cup UNION {{Append(w, x) : x \in {y \in S : \A i \in 1..Len(w) : w[i] # y}}
                                    : w \in shorter}

Picked == Selections(Files, MaxPicked)

NoValues == [name |-> "<none>", filePath |-> "<none>",
             instanceType |-> "<none>", maxCoinsPerHour |-> "<none>"]

\* The form as JOB_DEFINITION renders it: empty text inputs, the first
\* option selected, the slider at 10.
DefaultForm == [name |-> "", filePath |-> "",
                instanceType |-> "t3.medium", maxCoinsPerHour |-> "10"]

NoResult == [label |-> "<pending>", accept |-> FALSE, value |-> <<>>, byBrowse |-> FALSE]

\* Dialog.cancelButton(), Dialog.okButton({label: 'Create Job'}) and the
\* picker's 'Select' button, as results of a settled dialog.
CancelResult(v) == [label |-> "Cancel", accept |-> FALSE, value |-> v, byBrowse |-> FALSE]
CreateResult == [label |-> "Create Job", accept |-> TRUE, value |-> <<>>, byBrowse |-> FALSE]
SelectResult(v) == [label |-> "Select", accept |-> TRUE, value |-> v, byBrowse |-> FALSE]
\* The result dialog.reject() settles with (byBrowse only observes who did it).
RejectResult == [label |-> "Cancel", accept |-> FALSE, value |-> <<>>, byBrowse |-> TRUE]

Unsettled(ds) == {d \in 1..Len(ds) : ds[d].state # "settled"}
Visible(ds) == {d \in 1..Len(ds) : ds[d].state = "visible"}
VisibleOf(kind) == {d \in Visible(dialogs) : dialogs[d].kind = kind}

\* Dialog.launch(): the new dialog is attached at once when no earlier
\* dialog is unsettled, and waits in the launch queue otherwise.
launch(ds, kind, waiters) ==
    Append(ds, [kind    |-> kind,
                state   |-> IF Unsettled(ds) = {} THEN "visible" ELSE "queued",
                result  |-> NoResult,
                waiters |-> waiters])

\* A dialog settles: it is disposed, and the first dialog waiting in the
\* launch queue, if all before it have settled, is attached.
settle(ds, d, result) ==
    LET ds1 == [ds EXCEPT ![d] = [@ EXCEPT !.state = "settled", !.result = result,
                                           !.waiters = <<>>]]
        un  == Unsettled(ds1)
    IN  IF un = {} THEN ds1
        ELSE LET nxt == CHOOSE e \in un : \A f \in un : e <= f
             IN  [ds1 EXCEPT ![nxt] = [@ EXCEPT !.state = "visible"]]

\* The reactions a settling dialog hands to the microtask queue.
reactions(ds, d) == [i \in 1..Len(ds[d].waiters) |-> [who |-> ds[d].waiters[i], p |-> d]]

\* Dialog.reject(): a no-op on a settled dialog.
reject(ds, d) == IF ds[d].state = "settled" THEN ds ELSE settle(ds, d, RejectResult)
rejectReactions(ds, d) == IF ds[d].state = "settled" THEN <<>> ELSE reactions(ds, d)

\* `await p` by `who`: a reaction on p, or a microtask if p has settled.
awaitIn(ds, who, p) ==
    IF ds[p].state = "settled" THEN ds
    ELSE [ds EXCEPT ![p] = [@ EXCEPT !.waiters = Append(@, who)]]
awaitTasks(ds, who, p) ==
    IF ds[p].state = "settled" THEN <<[who |-> who, p |-> p]>> ELSE <<>>

\* The form values as they were when the dialog was built, not as they are.
ReadFormAtOpen == DefaultForm

\* Lines 403-413: the four values read from the form after the loop.
ReadForm == form

CreateAtRest ==
    /\ cPc = "idle"
    /\ dialogs = <<>>
    /\ queue = <<>>
    /\ dialog = 0
    /\ microtasks = <<>>
    /\ form = DefaultForm
    /\ valuesEntered = FALSE
    /\ addJobCalls = <<>>
    /\ error = NoError
    /\ browses = 0
    /\ confirmed = NoValues
    /\ atBrowse = NoValues

\* The user can act only between tasks, with no microtask waiting.
Quiet == microtasks = <<>>

\* One turn of `while (queue.length > 0) { result = await queue.pop(); ... }`
\* and what follows the loop, from the point where the condition is tested,
\* with `q`, `ds`, `ve`, `mt` the queue, the dialogs, valuesEntered and the
\* microtasks as they stand there.
LoopFrom(q, ds, ve, mt) ==
    IF q # <<>>
    THEN LET p == q[Len(q)]
         IN  /\ queue' = SubSeq(q, 1, Len(q) - 1)
             /\ dialogs' = awaitIn(ds, "main", p)
             /\ microtasks' = mt \o awaitTasks(ds, "main", p)
             /\ valuesEntered' = ve
             /\ cPc' = "awaitDialog"
             /\ UNCHANGED <<addJobCalls, alerts>>
    ELSE /\ queue' = q
         /\ dialogs' = ds
         /\ microtasks' = mt
         /\ valuesEntered' = ve
         /\ IF ve
            THEN /\ alerts' = showAlert(alerts, "Submitting a job...", "submitting-job-alert")
                 /\ addJobCalls' = Append(addJobCalls, ReadForm)
                 /\ cPc' = "awaitAddJob"
            ELSE /\ UNCHANGED <<addJobCalls, alerts>>
                 /\ cPc' = "done"

\* The panel's 'Create Job' button: showCreateJobDialog up to its first await.
OpenCreateJobDialog ==
    /\ cPc = "idle" /\ Quiet /\ Visible(dialogs) = {}
    /\ form' = DefaultForm
    /\ dialog' = Len(dialogs) + 1
    /\ LoopFrom(<<Len(dialogs) + 1>>, launch(dialogs, "A", <<>>), FALSE, microtasks)
    /\ UNCHANGED <<browses, confirmed, atBrowse, error, pathVars, logVars, listVarsButAlerts>>

\* The showCreateJobDialog calls made so far: the dialogs A but those that a
\* Browse cycle re-opened.
FlowsStarted ==
    Cardinality({d \in 1..Len(dialogs) : dialogs[d].kind = "A"})
        - Cardinality({d \in 1..(Len(dialogs) - 1) : dialogs[d].kind = "B"})

\* The panel's 'Create Job' button clicked again after an earlier
\* showCreateJobDialog call has ended: a new call, with a form of its own.
OpenCreateJobDialogAgain ==
    /\ cPc \in {"done", "failed"} /\ Quiet /\ Visible(dialogs) = {}
    /\ FlowsStarted < MaxCreates
    /\ form' = DefaultForm
    /\ error' = NoError
    /\ dialog' = Len(dialogs) + 1
    /\ LoopFrom(<<Len(dialogs) + 1>>, launch(dialogs, "A", <<>>), FALSE, microtasks)
    /\ UNCHANGED <<browses, confirmed, atBrowse, pathVars, logVars, listVarsButAlerts>>

\* The loop body run once, as with `if` for `while`: whatever the result,
\* the flow goes on to what follows the loop.
MainResumesNoLoop ==
    /\ microtasks # <<>> /\ Head(microtasks).who = "main"
    /\ cPc = "awaitDialog"
    /\ LET result == dialogs[Head(microtasks).p].result
           ve     == valuesEntered \/ (result.label = "Create Job" /\ result.accept)
       IN  LoopFrom(<<>>, dialogs, ve, Tail(microtasks))
    /\ UNCHANGED <<dialog, form, browses, confirmed, atBrowse, error, pathVars, logVars, listVarsButAlerts>>

\* The loop without the test of the button's label: any accepting button
\* sets valuesEntered.
MainResumesAnyAccept ==
    /\ microtasks # <<>> /\ Head(microtasks).who = "main"
    /\ cPc = "awaitDialog"
    /\ LET result == dialogs[Head(microtasks).p].result
           ve     == valuesEntered \/ result.accept
       IN  LoopFrom(queue, dialogs, ve, Tail(microtasks))
    /\ UNCHANGED <<dialog, form, browses, confirmed, atBrowse, error, pathVars, logVars, listVarsButAlerts>>

\* The loop resumes with the result of the promise it awaited.
MainResumes ==
    /\ microtasks # <<>> /\ Head(microtasks).who = "main"
    /\ cPc = "awaitDialog"
    /\ LET result == dialogs[Head(microtasks).p].result
           ve     == valuesEntered \/ (result.label = "Create Job" /\ result.accept)
       IN  LoopFrom(queue, dialogs, ve, Tail(microtasks))
    /\ UNCHANGED <<dialog, form, browses, confirmed, atBrowse, error, pathVars, logVars, listVarsButAlerts>>

\* The click handler without `queue.push(pOpenFiles)`.
ClickBrowseNoPush ==
    /\ Quiet /\ VisibleOf("A") # {} /\ browses < MaxBrowse
    /\ LET ds1 == launch(dialogs, "B", <<"browse">>)
       IN  /\ queue' = queue
           /\ dialogs' = reject(ds1, dialog)
           /\ microtasks' = microtasks \o rejectReactions(ds1, dialog)
    /\ browses' = browses + 1
    /\ atBrowse' = form
    /\ UNCHANGED <<cPc, error, dialog, form, valuesEntered, addJobCalls, confirmed, pathVars, logVars, listVars>>

\* The click handler without `dialog.reject()`.
ClickBrowseNoReject ==
    /\ Quiet /\ VisibleOf("A") # {} /\ browses < MaxBrowse
    /\ LET ds1 == launch(dialogs, "B", <<"browse">>)
           b   == Len(ds1)
       IN  /\ queue' = Append(queue, b)
           /\ dialogs' = ds1
           /\ microtasks' = microtasks
    /\ browses' = browses + 1
    /\ atBrowse' = form
    /\ UNCHANGED <<cPc, error, dialog, form, valuesEntered, addJobCalls, confirmed, pathVars, logVars, listVars>>

\* The Browse button's click handler up to `await pOpenFiles`.
ClickBrowse ==
    /\ Quiet /\ VisibleOf("A") # {} /\ browses < MaxBrowse
    /\ LET ds1 == launch(dialogs, "B", <<"browse">>)
           b   == Len(ds1)
       IN  /\ queue' = Append(queue, b)
           /\ dialogs' = reject(ds1, dialog)
           /\ microtasks' = microtasks \o rejectReactions(ds1, dialog)
    /\ browses' = browses + 1
    /\ atBrowse' = form
    /\ UNCHANGED <<cPc, error, dialog, form, valuesEntered, addJobCalls, confirmed, pathVars, logVars, listVars>>

\* The handler's continuation without the test of `res.button.accept`.
BrowseResumesIgnoresAccept ==
    /\ microtasks # <<>> /\ Head(microtasks).who = "browse"
    /\ LET res == dialogs[Head(microtasks).p].result
           ds1 == launch(dialogs, "A", <<>>)
       IN  /\ form' = IF Len(res.value) > 0
                      THEN [form EXCEPT !.name = res.value[1].name,
                                        !.filePath = res.value[1].path]
                      ELSE form
           /\ dialog' = Len(ds1)
           /\ dialogs' = ds1
           /\ queue' = Append(queue, Len(ds1))
    /\ microtasks' = Tail(microtasks)
    /\ UNCHANGED <<cPc, error, valuesEntered, addJobCalls, browses, confirmed, atBrowse, pathVars, logVars, listVars>>

\* The Browse handler resumes with the picker's result.
BrowseResumes ==
    /\ microtasks # <<>> /\ Head(microtasks).who = "browse"
    /\ LET res == dialogs[Head(microtasks).p].result
           ds1 == launch(dialogs, "A", <<>>)
       IN  /\ form' = IF res.accept /\ Len(res.value) > 0
                      THEN [form EXCEPT !.name = res.value[1].name,
                                        !.filePath = res.value[1].path]
                      ELSE form
           /\ dialog' = Len(ds1)
           /\ dialogs' = ds1
           /\ queue' = Append(queue, Len(ds1))
    /\ microtasks' = Tail(microtasks)
    /\ UNCHANGED <<cPc, error, valuesEntered, addJobCalls, browses, confirmed, atBrowse, pathVars, logVars, listVars>>

\* The user settles the visible dialog d with `result`.
UserSettles(d, result) ==
    /\ Quiet
    /\ dialogs' = settle(dialogs, d, result)
    /\ microtasks' = microtasks \o reactions(dialogs, d)
    /\ UNCHANGED <<cPc, error, queue, dialog, form, valuesEntered, addJobCalls, browses,
                   atBrowse, pathVars, logVars, listVars>>

PressCreateJob ==
    \E d \in VisibleOf("A") :
        /\ UserSettles(d, CreateResult)
        /\ confirmed' = form

PressCancel ==
    \E d \in VisibleOf("A") :
        /\ UserSettles(d, CancelResult(<<>>))
        /\ UNCHANGED confirmed

PickerSelects ==
    \E d \in VisibleOf("B") : \E v \in Picked :
        /\ UserSettles(d, SelectResult(v))
        /\ UNCHANGED confirmed

PickerCancels ==
    \E d \in VisibleOf("B") : \E v \in Picked :
        /\ UserSettles(d, CancelResult(v))
        /\ UNCHANGED confirmed

\* The user edits a field of the visible form.
EditForm(f) ==
    /\ Quiet /\ VisibleOf("A") # {}
    /\ f # form
    /\ form' = f
    /\ UNCHANGED <<cPc, error, dialogs, queue, dialog, microtasks, valuesEntered, addJobCalls,
                   browses, confirmed, atBrowse, pathVars, logVars, listVars>>

TypeName == \E v \in TypedNames : EditForm([form EXCEPT !.name = v])
TypeFilePath == \E v \in TypedPaths : EditForm([form EXCEPT !.filePath = v])
SelectInstanceType == \E v \in InstanceTypes : EditForm([form EXCEPT !.instanceType = v])
SlideMaxCoins == \E v \in CoinValues : EditForm([form EXCEPT !.maxCoinsPerHour = v])

---------------------------------------------------------------------------
(* Inputs of the output-path derivation: strings made of a few pieces.     *)

MaxPathPieces == 3
MaxNamePieces == 2
MaxIdPieces == 2

PathPieces == {<<"a">>, <<".">>, <<"/">>, IPYNB, <<"I","P","Y","N","B">>}
NamePieces == {<<"n">>, <<".">>}
IdPieces == {<<"x">>, <<"-">>}

RECURSIVE Words(_, _)
Words(pieces, n) ==
    IF n = 0 THEN {<<>>}
    ELSE LET shorter == Words(pieces, n - 1)
         IN  shorter \cup {w \o p : w \in shorter, p \in pieces}

Jobs ==
    [name      : Words(NamePieces, MaxNamePieces),
     file_path : Words(PathPieces, MaxPathPieces),
     job_id    : Words(IdPieces, MaxIdPieces)]
    \cup {ExampleRun, ExampleNotebook}

---------------------------------------------------------------------------
(* The specifications: each drives one part of the panel and leaves the   *)
(* rest at rest.                                                           *)

InitPath ==
    /\ job \in Jobs
    /\ outputPath = NotCalled
    /\ CreateAtRest
    /\ server = {}
    /\ ListAtRest
    /\ LogAtRest

\* A caller (fetchJobs, per rendered row) resolves the job's output path.
ResolveOutputPath ==
    /\ outputPath = NotCalled
    /\ outputPath' = getOutputPath(job)
    /\ UNCHANGED <<job, createVars, listVars, logVars>>

NextPath == ResolveOutputPath

SpecPath == InitPath /\ [][NextPath]_vars

\* The console log of one job, whatever its text.
MaxLogLen == 3
LogChars == {"<", ">", "&", "\"", "'", "b"}

RECURSIVE Strings(_, _)
Strings(chars, n) ==
    IF n = 0 THEN {<<>>}
    ELSE Strings(chars, n - 1)
            \cup {Append(s, c) : s \in Strings(chars, n - 1), c \in chars}

InitLog ==
    /\ console_output \in Strings(LogChars, MaxLogLen)
    /\ jobLog = NotRendered
    /\ logBody = NotShown
    /\ PathAtRest
    /\ CreateAtRest
    /\ server = {}
    /\ ListAtRest

NextLog == RenderRow \/ ClickStatus

SpecLog == InitLog /\ [][NextLog]_vars

\* The refreshes started by panel attach and by the Reload button.
InitList ==
    /\ server \in SUBSET JobIds
    /\ ListAtRest
    /\ CreateAtRest
    /\ PathAtRest
    /\ LogAtRest

NextList ==
    \/ ClickReload
    \/ AfterAttach
    \/ GetFails
    \/ GetSucceeds
    \/ ExistsFails
    \/ \E exists \in BOOLEAN : ExistsAnswers(exists)
    \/ SpinnerExpires

SpecList == InitList /\ [][NextList]_vars

\* The delete controls of a panel whose backend holds one job: the refreshes
\* that render them, the clicks, the disarm timers, the DELETEs and their
\* alerts.
InitDelete ==
    /\ server = {"j1"}
    /\ ListAtRest
    /\ CreateAtRest
    /\ PathAtRest
    /\ LogAtRest

NextDelete ==
    \/ ClickReload
    \/ AfterAttach
    \/ GetSucceeds
    \/ \E exists \in BOOLEAN : ExistsAnswers(exists)
    \/ GetFails
    \/ ExistsFails
    \/ AlertExpires
    \/ \E b \in Buttons(tableBody) : ClickDelete(b)
    \/ \E t \in timers : DisarmTimerFires(t)
    \/ DeleteSucceeds
    \/ DeleteFails

SpecDelete == InitDelete /\ [][NextDelete]_vars

\* Every timer that setTimeout has started and that is still pending runs
\* its callback: the event loop does not starve a due timer.
TimerIds == {[closure |-> cl, button |-> <<c, i>>] :
                cl \in 1..MaxCalls, c \in 1..MaxCalls, i \in 1..Len(JobOrder)}

FairDelete == SpecDelete /\ \A t \in TimerIds : WF_vars(DisarmTimerFires(t))

\* The delete controls of a panel that is attached once and never reloaded
\* by hand, its backend holding two jobs.
InitArming ==
    /\ server = {"j1", "j2"}
    /\ ListAtRest
    /\ CreateAtRest
    /\ PathAtRest
    /\ LogAtRest

NextArming ==
    \/ AfterAttach
    \/ GetSucceeds
    \/ \E exists \in BOOLEAN : ExistsAnswers(exists)
    \/ GetFails
    \/ ExistsFails
    \/ \E b \in Buttons(tableBody) : ClickDelete(b)
    \/ \E t \in timers : DisarmTimerFires(t)
    \/ DeleteSucceeds
    \/ DeleteFails

SpecArming == InitArming /\ [][NextArming]_vars

InitCreate ==
    /\ CreateAtRest
    /\ PathAtRest
    /\ LogAtRest
    /\ server = {}
    /\ ListAtRest

\* The POST of addJob succeeds: the backend holds one job more and the flow
\* goes on to fetchJobs.
AddJobSucceeds ==
    /\ cPc = "awaitAddJob"
    /\ \E j \in JobIds \ server :
          /\ j = first(Listed(JobIds \ server))
          /\ server' = server \cup {j}
    /\ calls' = startFetch(calls, [kind |-> "create", id |-> 0])
    /\ cPc' = "awaitFetch"
    /\ UNCHANGED <<error, createVarsButPc, tableBody, listeners, clickedButtons, timers,
                   deletes, downloads, alerts, notifications, spinners, probe, pathVars, logVars>>

\* The POST fails: addJob throws and the catch block shows the failure.
AddJobFails ==
    \E err \in CreateErrors :
        /\ cPc = "awaitAddJob"
        /\ cPc' = "failed"
        /\ error' = err
        /\ alerts' = showAlert(alerts, CreateFailureMsg(err), "job-submission-error-alert")
        /\ notifications' = notifications \cup {CreateFailureMsg(err)}
        /\ UNCHANGED <<createVarsButPc, server, calls, tableBody, listeners,
                       clickedButtons, timers, deletes, downloads, spinners, probe,
                       pathVars, logVars>>

\* The requests that change the backend, each with the refresh that follows
\* it: a panel attached to a backend with no job yet, the create dialog used
\* without Browse, and the delete controls.
InitRequests ==
    /\ server = {}
    /\ ListAtRest
    /\ CreateAtRest
    /\ PathAtRest
    /\ LogAtRest

NextRequests ==
    \/ AfterAttach
    \/ GetSucceeds
    \/ GetFails
    \/ \E exists \in BOOLEAN : ExistsAnswers(exists)
    \/ ExistsFails
    \/ \E b \in Buttons(tableBody) : ClickDelete(b)
    \/ \E t \in timers : DisarmTimerFires(t)
    \/ DeleteSucceeds
    \/ DeleteFails
    \/ OpenCreateJobDialog
    \/ MainResumes
    \/ PressCreateJob
    \/ PressCancel
    \/ AddJobSucceeds
    \/ AddJobFails

SpecRequests == InitRequests /\ [][NextRequests]_vars

\* Submissions one after the other: the create dialog used without Browse,
\* opened again after a submission has ended, on a backend with no job.
InitSubmit ==
    /\ server = {}
    /\ ListAtRest
    /\ CreateAtRest
    /\ PathAtRest
    /\ LogAtRest

NextSubmit ==
    \/ OpenCreateJobDialog
    \/ OpenCreateJobDialogAgain
    \/ MainResumes
    \/ PressCreateJob
    \/ PressCancel
    \/ AddJobSucceeds
    \/ AddJobFails
    \/ GetSucceeds
    \/ GetFails
    \/ \E exists \in BOOLEAN : ExistsAnswers(exists)
    \/ ExistsFails
    \/ AlertExpires

SpecSubmit == InitSubmit /\ [][NextSubmit]_vars

NextCreate ==
    \/ OpenCreateJobDialog
    \/ MainResumes
    \/ ClickBrowse
    \/ BrowseResumes
    \/ PressCreateJob
    \/ PressCancel
    \/ PickerSelects
    \/ PickerCancels
    \/ TypeName
    \/ TypeFilePath
    \/ SelectInstanceType
    \/ SlideMaxCoins
    \/ AddJobSucceeds
    \/ AddJobFails
    \/ GetFails
    \/ GetSucceeds
    \/ ExistsFails
    \/ \E exists \in BOOLEAN : ExistsAnswers(exists)

SpecCreate == InitCreate /\ [][NextCreate]_vars

---------------------------------------------------------------------------
(* Properties of the create-job flow.                                      *)

\* The queue-draining loop has been left.
LoopExited == cPc \notin {"idle", "awaitDialog"}

\* Dialog d was settled by the Browse handler's dialog.reject().
Stale(d) == dialogs[d].state = "settled" /\ dialogs[d].result.byBrowse

\* A Browse handler has yet to launch its re-opened dialog.
BrowsePending ==
    \/ \E d \in 1..Len(dialogs) :
          \E i \in 1..Len(dialogs[d].waiters) : dialogs[d].waiters[i] = "browse"
    \/ \E i \in 1..Len(microtasks) : microtasks[i].who = "browse"

MainAwaits(d) == \E i \in 1..Len(dialogs[d].waiters) : dialogs[d].waiters[i] = "main"

InQueue(d) == \E i \in 1..Len(queue) : queue[i] = d

\* C1: after any number of browse cycles and one press of 'Create Job',
\* addJob is called exactly once, with the form values of that moment.
C1_OneAddJobWithFinalValues ==
    /\ Len(addJobCalls) <= 1
    /\ addJobCalls # <<>> => (confirmed # NoValues /\ addJobCalls[1] = confirmed)
    /\ (confirmed # NoValues /\ Quiet) => Len(addJobCalls) = 1

\* C1 witness: two browse cycles, a picked file, then a name typed over the
\* picked one, and addJob called with the typed name.
C1_Witness ==
    /\ browses >= 2
    /\ Len(addJobCalls) = 1
    /\ addJobCalls[1].name \in TypedNames
    /\ \E d \in 1..Len(dialogs) :
          /\ dialogs[d].kind = "B" /\ dialogs[d].result.accept
          /\ Len(dialogs[d].result.value) > 0

\* The loop is about to resume with a stale settlement.
StaleAtHead ==
    /\ microtasks # <<>> /\ Head(microtasks).who = "main"
    /\ dialogs[Head(microtasks).p].result.byBrowse

\* C2: the settlement of a modal A rejected by Browse is never acted upon:
\* taking it in triggers no addJob, does not set valuesEntered and does not
\* end the loop, and the loop is never left while a dialog is unsettled or
\* a Browse handler has yet to push its re-opened dialog.
C2_StaleSettlementDiscarded ==
    /\ [](LoopExited => (Unsettled(dialogs) = {} /\ ~BrowsePending))
    /\ [][StaleAtHead => /\ addJobCalls' = addJobCalls
                         /\ valuesEntered' = valuesEntered
                         /\ cPc' = "awaitDialog"]_vars

\* C2 witness: a flow that took in a stale settlement and later called addJob.
C2_Witness ==
    /\ \E d \in 1..Len(dialogs) : Stale(d)
    /\ Len(addJobCalls) = 1

\* C3: at most one modal surface is visible; while a file picker is up
\* (launched and not settled) no job-definition dialog is visible, so a
\* re-opened modal A is visible only after modal B has settled.
C3_OneModalVisible ==
    /\ Cardinality(Visible(dialogs)) <= 1
    /\ VisibleOf("A") # {} =>
          \A b \in 1..Len(dialogs) : dialogs[b].kind = "B" => dialogs[b].state = "settled"

\* C3 witness: the picker is visible, the dialog it interrupted is gone.
C3_Witness ==
    \E b \in VisibleOf("B") : \E a \in 1..(b-1) : dialogs[a].kind = "A" /\ Stale(a)

\* C4 as stated: the loop is left only when a modal A has settled with
\* acceptance while no newer modal is pending.
C4_EndsOnlyOnAcceptance ==
    LoopExited =>
        /\ Unsettled(dialogs) = {} /\ ~BrowsePending
        /\ dialogs[Len(dialogs)].kind = "A"
        /\ dialogs[Len(dialogs)].result = CreateResult

\* C4 amended: the loop is left only when a modal A has been settled by the
\* user, with 'Create Job' or with Cancel, while no newer modal is pending;
\* addJob follows exactly when it was 'Create Job'.
C4_EndsOnlyOnUserSettledA ==
    LoopExited =>
        /\ Unsettled(dialogs) = {} /\ ~BrowsePending
        /\ dialogs[Len(dialogs)].kind = "A"
        /\ ~dialogs[Len(dialogs)].result.byBrowse
        /\ (addJobCalls # <<>>) <=> (dialogs[Len(dialogs)].result = CreateResult)

\* C4 witness: after a browse cycle the user cancels the re-opened dialog
\* and the flow ends.
C4_Witness ==
    /\ cPc = "done" /\ browses >= 1
    /\ dialogs[Len(dialogs)].result = CancelResult(<<>>)

\* The step that launches a dialog A after an earlier dialog.
Reopens ==
    /\ Len(dialogs) > 0
    /\ Len(dialogs') = Len(dialogs) + 1
    /\ dialogs'[Len(dialogs')].kind = "A"

\* C5: every settled picker is followed by a fresh modal A that is launched
\* and queued; its name and path are the first picked file's when the
\* picker was accepted with a file, and those of the Browse click otherwise.
C5_ReopensPrefilled ==
    /\ [](Quiet => \A b \in 1..Len(dialogs) :
              (dialogs[b].kind = "B" /\ dialogs[b].state = "settled") =>
                  /\ b < Len(dialogs)
                  /\ dialogs[b+1].kind = "A"
                  /\ InQueue(b+1) \/ MainAwaits(b+1) \/ dialogs[b+1].state = "settled")
    /\ [][Reopens =>
            LET res == dialogs[Len(dialogs)].result
            IN  /\ dialogs[Len(dialogs)].kind = "B"
                /\ IF res.accept /\ Len(res.value) > 0
                   THEN /\ form'.name = res.value[1].name
                        /\ form'.filePath = res.value[1].path
                   ELSE /\ form'.name = atBrowse.name
                        /\ form'.filePath = atBrowse.filePath]_vars

\* C5 witness: the picker was cancelled with a file selected, and the
\* re-opened dialog shows the name typed before the Browse click.
C5_Witness ==
    /\ Quiet
    /\ \E a \in VisibleOf("A") :
          /\ a > 1
          /\ dialogs[a-1].kind = "B"
          /\ ~dialogs[a-1].result.accept
          /\ Len(dialogs[a-1].result.value) > 0
    /\ form.name \in TypedNames
    /\ form.name = atBrowse.name


---------------------------------------------------------------------------
(* The output path as the specification words it, by position of the last  *)
(* '/', the last '.' and the first '-' (no split, no join).                *)

LastIndexOf(s, c) ==
    IF includes(s, c)
    THEN CHOOSE i \in 1..Len(s) : s[i] = c /\ \A j \in (i+1)..Len(s) : s[j] # c
    ELSE 0

FirstIndexOf(s, c) ==
    IF includes(s, c)
    THEN CHOOSE i \in 1..Len(s) : s[i] = c /\ \A j \in 1..(i-1) : s[j] # c
    ELSE 0

\* The last '/'-segment of a path.
Basename(p) == SubSeq(p, LastIndexOf(p, "/") + 1, Len(p))

\* The path without its last '/'-segment.
Root(p) == SubSeq(p, 1, LastIndexOf(p, "/") - 1)

\* s without its final '.'-suffix, if it has one.
Stem(s) == IF includes(s, ".") THEN SubSeq(s, 1, LastIndexOf(s, ".") - 1) ELSE s

\* The substring before the first '-' (the whole id when there is none).
ShortId(id) == IF includes(id, "-") THEN SubSeq(id, 1, FirstIndexOf(id, "-") - 1) ELSE id

\* The extension is what follows the last '.'; a name without '.' has none.
HasExtension(b, ext) ==
    includes(b, ".") /\ SubSeq(b, LastIndexOf(b, ".") + 1, Len(b)) = ext

OutputFilename(b) ==
    IF HasExtension(b, IPYNB) THEN b ELSE Stem(b) \o <<".","o","u","t">>

FormulaPath(j) ==
    Root(j.file_path) \o <<"/">> \o Stem(j.name) \o <<"_">> \o ShortId(j.job_id)
        \o <<"/">> \o OutputFilename(Basename(j.file_path))

Called == outputPath # NotCalled

\* C6: for every job, getOutputPath returns
\* root/stem(name)_shortId(job_id)/outputFilename(basename(file_path)).
C6_OutputPathIsFormula == Called => outputPath = FormulaPath(job)

\* The formula of C6 does hold wherever the final segment of file_path is
\* neither empty nor the bare word 'ipynb'.
OutputPathIsFormulaElsewhere ==
    (Called /\ Basename(job.file_path) \notin {<<>>, IPYNB})
        => outputPath = FormulaPath(job)

\* C7: a non-empty final segment of file_path without '.' comes back as
\* that segment followed by '.out', the segment 'ipynb' included.
C7_DotlessSegmentGetsOut ==
    (Called /\ Basename(job.file_path) # <<>> /\ ~includes(Basename(job.file_path), "."))
        => Basename(outputPath) = Basename(job.file_path) \o <<".","o","u","t">>

\* Every character of a string is an ordinary character (no JavaScript
\* undefined, no error value).
IsString(s) == \A i \in 1..Len(s) : s[i] \notin {Undefined[1], NotCalled[1]}

\* The directory segment of a resolved path: the one before the last.
ParentDir(p) == Basename(Root(p))

\* C8: getOutputPath always returns a string; a job_id without '-' is used
\* whole as the short id; an empty final segment of file_path gives the
\* final segment 'undefined'.
C8_TotalWithFallbacks ==
    Called =>
        /\ IsString(outputPath)
        /\ ~includes(job.job_id, "-")
              => ParentDir(outputPath) = Stem(job.name) \o <<"_">> \o job.job_id
        /\ Basename(job.file_path) = <<>>
              => Basename(outputPath) = <<"u","n","d","e","f","i","n","e","d">>

\* C8 witness: a resolved job whose id has no '-' and whose path ends in '/'.
C8_Witness ==
    /\ Called
    /\ job.job_id # <<>> /\ ~includes(job.job_id, "-")
    /\ job.file_path # <<>> /\ Basename(job.file_path) = <<>>


---------------------------------------------------------------------------
(* Properties of the delete controls.                                      *)
(*                                                                         *)
(* `probe` follows one control from the click that finds it Idle and does  *)
(* something: "armed" by that click ("rearmed" when the control had lapsed *)
(* before), "lapsed" when its last disarm timer has run with no click in   *)
(* between, "confirmed" by a second click before that, with the DELETEs    *)
(* that click sent in `issued`.  A click on a button that has no listener  *)
(* yet runs no code and is not a step of the model.                        *)

\* C9: the second click on a control armed from Idle, arriving before the
\* control has lapsed, sends exactly one DELETE, for the row's job_id.
C9_TwoClicksOneDelete ==
    probe.phase = "confirmed" => probe.issued = <<probe.job>>

Armed == probe.phase \in {"armed", "rearmed"}

ProbeRow == RowOf(tableBody, probe.b)

IdleIn(cb, b) == ~\E e \in cb : e.button = b

\* A step in which a click arms a control that was Idle.
ArmsIdle(b) == IdleIn(clickedButtons, b) /\ ~IdleIn(clickedButtons', b)

FailsNow(h) == deletes[h].pc = "awaitDelete" /\ deletes'[h].pc = "failed"

\* The failure message of handler run h is shown by the step.
ErrorShownNow ==
    \E a \in DOMAIN alerts' :
        /\ a.cls = "deleting-job-error-alert"
        /\ AlertCount(alerts', a) = AlertCount(alerts, a) + 1
        /\ a.msg \in notifications'

\* C11: when the DELETE sent by a confirming click fails, the control is
\* Idle from that step on (not in clickedButtons, labelled 'Delete'), the
\* error is shown and the table keeps its rows.
C11_FailedDeleteDisarms ==
    [][\A h \in 1..Len(deletes) : FailsNow(h) =>
          /\ ErrorShownNow
          /\ tableBody' = tableBody
          /\ deletes[h].button \in Buttons(tableBody) =>
                /\ IdleIn(clickedButtons', deletes[h].button)
                /\ RowOf(tableBody', deletes[h].button).text = "Delete"]_vars

\* What holds of C11: the error is shown and the table keeps its rows.
FailedDeleteShowsErrorKeepsRows ==
    [][\A h \in 1..Len(deletes) : FailsNow(h) =>
          ErrorShownNow /\ tableBody' = tableBody /\ calls' = calls]_vars

\* The closures that hold button b armed.
Held(cb, b) == {e.closure : e \in {x \in cb : x.button = b}}

\* The handler runs the step starts.
NewDeletes == (Len(deletes) + 1)..Len(deletes')

\* C12: a step that arms or disarms a control, or confirms on it, leaves
\* every other control of the table as it was, armed or Idle, with its label
\* and class; and a DELETE is sent only for a control that was armed, so a
\* first click on row B while row A is armed arms B and sends nothing.
C12_ArmingIsPerControl ==
    [][/\ \A b1 \in Buttons(tableBody) \cap Buttons(tableBody') :
             (\/ Held(clickedButtons', b1) # Held(clickedButtons, b1)
              \/ \E h \in NewDeletes : deletes'[h].button = b1) =>
                 \A b2 \in (Buttons(tableBody) \cap Buttons(tableBody')) \ {b1} :
                     /\ Held(clickedButtons', b2) = Held(clickedButtons, b2)
                     /\ RowOf(tableBody', b2) = RowOf(tableBody, b2)
       /\ \A h \in NewDeletes : ~IdleIn(clickedButtons, deletes'[h].button)]_vars

\* C12 witness: the controls of the rows of j1 and j2 are both armed, the
\* second by a click that came while the first was armed, and no DELETE has
\* been sent.
C12_Witness ==
    /\ deletes = <<>>
    /\ \E a, b \in Buttons(tableBody) :
          /\ RowOf(tableBody, a).job = "j1" /\ RowOf(tableBody, b).job = "j2"
          /\ ~Idle(a) /\ ~Idle(b)
          /\ RowOf(tableBody, a).warning /\ RowOf(tableBody, b).warning


---------------------------------------------------------------------------
(* Properties of the refresh.                                              *)

\* The step in which the GET of call c fails.
GetFailsNow(c) == calls[c].pc = "awaitGet" /\ calls'[c].pc = "failedGet"

\* The step enters fetchJobs.
FetchStartsNow == Len(calls') > Len(calls)

\* C13: a fetchJobs call whose GET fails has not touched the table body: not
\* when it was entered and sent the GET, and not when the GET fails.
C13_FailedGetKeepsTable ==
    [][(FetchStartsNow \/ \E c \in 1..Len(calls) : GetFailsNow(c)) =>
          tableBody' = tableBody /\ listeners' = listeners]_vars

\* C13 witness: the table holds the two rows an earlier refresh rendered and
\* a later refresh has failed at its GET.
C13_Witness ==
    /\ Len(tableBody) = 2
    /\ \E c \in 1..Len(calls) :
          /\ calls[c].pc = "failedGet"
          /\ \A r \in 1..Len(tableBody) : tableBody[r].call < c

\* The step shows an error: one more alert of an error class, or one more
\* notification.
ErrorSurfacesNow ==
    \/ \E a \in DOMAIN alerts' :
          /\ a.cls \in {"deleting-job-error-alert", "job-submission-error-alert"}
          /\ AlertCount(alerts', a) > AlertCount(alerts, a)
    \/ notifications' # notifications

\* C14: whichever caller started the refresh, the step in which its GET
\* fails shows an error to the user.
C14_FailedGetSurfaces ==
    [][\A c \in 1..Len(calls) : GetFailsNow(c) => ErrorSurfacesNow]_vars

\* What holds of C14: the failed GET of the refresh after a create or a
\* delete shows an error alert.
FailedGetSurfacesAfterCreateOrDelete ==
    [][\A c \in 1..Len(calls) :
          (GetFailsNow(c) /\ calls[c].caller.kind \in {"create", "delete"}) =>
              \E a \in DOMAIN alerts' :
                  /\ a.cls \in {"deleting-job-error-alert", "job-submission-error-alert"}
                  /\ AlertCount(alerts', a) > AlertCount(alerts, a)]_vars

\* The refreshes started by Reload or by attach that are in flight.
Refreshing ==
    {c \in 1..Len(calls) : /\ calls[c].caller.kind \in {"reload", "attach"}
                           /\ calls[c].pc \in {"awaitGet", "awaitExists"}}

\* C15: while refreshes started by Reload or attach are in flight each has
\* its spinner in the header, and the step in which one of them finishes,
\* by return or by throw, removes a spinner.
C15_SpinnerForTheRequest ==
    /\ [](Cardinality(Refreshing) <= spinners)
    /\ [][\A c \in Refreshing : c \notin Refreshing' => spinners' = spinners - 1]_vars

\* What holds of C15: the spinner is shown when the refresh starts and a
\* refresh that returns removes one.
SpinnerShownAndRemovedOnReturn ==
    [][/\ Cardinality(Refreshing') > Cardinality(Refreshing) => spinners' = spinners + 1
       /\ \A c \in Refreshing : calls'[c].pc = "done" => spinners' = removeSpinner(spinners)]_vars

\* Every fetchJobs call made so far has returned.
AllReturned == calls # <<>> /\ \A c \in 1..Len(calls) : calls[c].pc = "done"

\* C16: once every overlapping fetchJobs call has returned, the rows of the
\* table are those of one response, the last to land: all rendered by the
\* same call, one per job in the order of its response.
C16_LastResponseWins ==
    AllReturned =>
        \E c \in 1..Len(calls) :
            \A r \in 1..Len(tableBody) : tableBody[r].call = c /\ tableBody[r].idx = r

\* The jobs of the rows of the table, in order.
RowJobs == [r \in 1..Len(tableBody) |-> tableBody[r].job]

Ended(c) == calls[c].pc \in {"done", "failedGet", "failedExists"}

\* C17: when the first refresh of a panel has ended, by return or by a throw
\* at the GET or at a file-existence check, and no other was started, the
\* table is as it was before (empty) or holds one row for every job of the
\* response.
C17_NoPartialRender ==
    (Len(calls) = 1 /\ Ended(1)) => (tableBody = <<>> \/ RowJobs = Listed(server))

\* What holds of C17: a refresh that returns, or that fails at its GET, with
\* no other refresh about, leaves no partial table.
NoPartialRenderButByExistsError ==
    (Len(calls) = 1 /\ calls[1].pc \in {"done", "failedGet"}) =>
        (tableBody = <<>> \/ RowJobs = Listed(server))

Finished(j) == JobStatus[j] \in {"TERMINATED", "EMPTY"}

\* C18: a rendered row has its output link exactly when fileExists answered
\* true for its output path or its job is TERMINATED or EMPTY; download/<id>
\* is requested only for jobs that are TERMINATED or EMPTY, and the step
\* that sends the request appends the row, link set, without awaiting it.
C18_OutputLink ==
    /\ [](\A r \in 1..Len(tableBody) :
              tableBody[r].output <=> (tableBody[r].exists \/ Finished(tableBody[r].job)))
    /\ [](\A j \in downloads : Finished(j))
    /\ [][\A j \in downloads' \ downloads :
              /\ Len(tableBody') = Len(tableBody) + 1
              /\ tableBody'[Len(tableBody')].job = j
              /\ tableBody'[Len(tableBody')].output]_vars

\* C18 witness: the table shows a RUNNING job without link, a TERMINATED and
\* an EMPTY job with link and file not found, their downloads requested.
C18_Witness ==
    /\ \E r \in 1..Len(tableBody) : tableBody[r].job = "j1" /\ ~tableBody[r].output
    /\ \E r \in 1..Len(tableBody) :
          tableBody[r].job = "j2" /\ tableBody[r].output /\ ~tableBody[r].exists
    /\ \E r \in 1..Len(tableBody) :
          tableBody[r].job = "j3" /\ tableBody[r].output /\ ~tableBody[r].exists
    /\ downloads = {"j2", "j3"}


---------------------------------------------------------------------------
(* Properties of the requests that change the backend.                     *)

\* The step in which the POST of addJob, or the DELETE of handler run h, is
\* answered.
PostSettlesNow == cPc = "awaitAddJob" /\ cPc' # "awaitAddJob"
DeleteSettlesNow(h) == deletes[h].pc = "awaitDelete" /\ deletes'[h].pc # "awaitDelete"

\* The fetchJobs call the step enters.
NewCall == calls'[Len(calls')]

\* C19: the step in which a POST or DELETE succeeds enters fetchJobs and
\* sends its GET, the step in which one fails enters no fetchJobs, and a
\* fetchJobs call on behalf of a create or a delete is entered in no other
\* step.
C19_RefreshIffSuccess ==
    [][/\ PostSettlesNow =>
             IF cPc' = "failed"
             THEN calls' = calls /\ server' = server
             ELSE /\ FetchStartsNow /\ server' # server
                  /\ NewCall.caller.kind = "create" /\ NewCall.pc = "awaitGet"
       /\ \A h \in 1..Len(deletes) : DeleteSettlesNow(h) =>
             IF deletes'[h].pc = "failed"
             THEN calls' = calls /\ server' = server
             ELSE /\ FetchStartsNow /\ server' = server \ {deletes[h].job}
                  /\ NewCall.caller = [kind |-> "delete", id |-> h]
                  /\ NewCall.pc = "awaitGet"
       /\ (FetchStartsNow /\ NewCall.caller.kind \in {"create", "delete"}) =>
             \/ PostSettlesNow /\ cPc' # "failed"
             \/ \E h \in 1..Len(deletes) : DeleteSettlesNow(h) /\ deletes'[h].pc # "failed"]_vars

\* C19 witness: the POST succeeded and its refresh was made; of two DELETEs
\* one succeeded and one failed, and one refresh was made on their behalf.
C19_Witness ==
    /\ CallsBy("create") = 1
    /\ Len(deletes) = 2
    /\ \A h \in 1..2 : deletes[h].pc # "awaitDelete"
    /\ CallsBy("delete") = 1

ErrorBanners ==
    {a \in DOMAIN alerts :
        a.cls \in {"job-submission-error-alert", "deleting-job-error-alert"}}

\* The step in which a submission ends in success: addJob and fetchJobs have
\* returned.
SubmissionSucceedsNow == cPc = "awaitFetch" /\ cPc' = "done"

\* C20: when a submission has succeeded no error alert is left in the
\* panel's alert container.
C20_SuccessClearsErrorBanner ==
    [][SubmissionSucceedsNow => ErrorBanners' = {}]_vars

\* What holds of C20: the success removes the 'Submitting a job...' alert of
\* this submission.
SuccessClearsSubmittingAlert ==
    [][SubmissionSucceedsNow =>
          alerts' = removeAlert(alerts, "submitting-job-alert")]_vars

---------------------------------------------------------------------------
(* Properties of the failure branch of the create flow.                    *)

\* The step in which the catch block of showCreateJobDialog shows its
\* message.
CreateFailureShownNow == cPc # "failed" /\ cPc' = "failed"

\* C21: the create flow shows a failure message only when POST /jobs itself
\* failed, so that the submission has created no job.
C21_FailureMeansNoJobCreated ==
    [][CreateFailureShownNow => cPc = "awaitAddJob" /\ server' = server]_vars

\* What holds of C21: a failure message shown while the POST is awaited
\* leaves the backend's jobs as they were and starts no refresh.
PostFailureCreatesNoJob ==
    [][(CreateFailureShownNow /\ cPc = "awaitAddJob") =>
          server' = server /\ calls' = calls]_vars


\* The POST itself was answered with a non-success status: the catch block
\* holds a ResponseError and the flow has started no refresh.
PostRefused ==
    cPc = "failed" /\ error.type = "response" /\ CallsBy("create") = 0

PriceCapMsg == "Failed: Increase Max Coins Per Hour in the job definition."
CapacityMsg == "Failed: Insufficient instance capacity. Wait or choose other instance types."

\* The message announced for cause c.
MessageFor(c) ==
    CASE c = "SpotMaxPriceTooLow" -> PriceCapMsg
      [] c = "InsufficientInstanceCapacity" -> CapacityMsg
      [] OTHER -> "Failed: " \o c \o "."

\* C22: when POST /jobs was refused with cause c the message shown, as
\* alert and as notification, is the price-cap message for
\* SpotMaxPriceTooLow, the capacity message for
\* InsufficientInstanceCapacity, and one with the raw cause c otherwise.
C22_CauseToMessage ==
    PostRefused =>
        /\ notifications = {MessageFor(error.cause)}
        /\ {a \in DOMAIN alerts : a.cls = "job-submission-error-alert"}
              = {[cls |-> "job-submission-error-alert", msg |-> MessageFor(error.cause)]}

C22_Witness ==
    PostRefused /\ error.cause = "SpotMaxPriceTooLow" /\ PriceCapMsg \in notifications

---------------------------------------------------------------------------
(* Properties of the console log.                                          *)

\* The text nodes of s taken as text, one per character.
AsText(s) == [i \in 1..Len(s) |-> TextNode(s[i])]

LogShown == logBody \notin {NotShown, NotAvailable}

\* C23: whatever console_output is, the Console Log dialog shows it as
\* text: the <pre> holds the characters of console_output as text nodes and
\* no element.
C23_LogShownAsText == LogShown => logBody = AsText(console_output)

\* What holds of C23: the escaping keeps console_output out of the row's
\* markup, the data-job-log attribute holds console_output itself.
AttributeHoldsConsoleOutput == jobLog # NotRendered => jobLog = console_output

---------------------------------------------------------------------------
(* Properties of repeated clicks on a delete control.                      *)

\* C24: the clicks on one control within one armed window, from the click
\* that arms it until its timer disarms it, send at most one DELETE.
C24_OneArmingOneDelete ==
    probe.phase \in {"confirmed", "again"} => Len(probe.issued) <= 1

\* What holds of C24: every DELETE sent from the followed control within the
\* window is for the job of its row.
WindowDeletesAreForTheRow ==
    \A i \in 1..Len(probe.issued) : probe.issued[i] = probe.job

---------------------------------------------------------------------------
(* Properties of what lets the create flow call addJob.                    *)

\* Some job-definition dialog has settled with its 'Create Job' button.
CreateJobPressed ==
    \E d \in 1..Len(dialogs) :
        /\ dialogs[d].kind = "A"
        /\ dialogs[d].state = "settled"
        /\ dialogs[d].result = CreateResult

\* Some file picker was accepted with a file.
FilePicked ==
    \E d \in 1..Len(dialogs) :
        /\ dialogs[d].kind = "B"
        /\ dialogs[d].state = "settled"
        /\ dialogs[d].result.accept /\ Len(dialogs[d].result.value) > 0

\* C25: addJob is called only after a job-definition dialog has settled
\* with 'Create Job'; a flow in which none did, cancelled with or without
\* browse cycles and accepted file pickers, ends with no addJob call, no
\* job created and no refresh.
C25_AddJobOnlyAfterCreateJob ==
    /\ addJobCalls # <<>> => CreateJobPressed
    /\ (LoopExited /\ ~CreateJobPressed) =>
          /\ cPc = "done"
          /\ addJobCalls = <<>>
          /\ CallsBy("create") = 0
          /\ server = {}

\* C25 witness: a file was picked in a browse cycle, the re-opened dialog
\* was cancelled, and the flow has ended without an addJob call.
C25_Witness ==
    /\ cPc = "done" /\ FilePicked /\ ~CreateJobPressed
    /\ dialogs[Len(dialogs)].result.label = "Cancel"
    /\ addJobCalls = <<>>

===========================================================================
